---------------------------- MODULE Spec2Model ----------------------------
(***************************************************************************)
(* A model of anipose's command-line layer: the configuration loader       *)
(* (anipose.py, load_config), the pose-inference stage with its GPU worker *)
(* pool (pose_videos.py), the progress check and the run-all command.      *)
(***************************************************************************)
EXTENDS Integers, Sequences, FiniteSets, TLC

VARIABLES
    \* ---- configuration loader (anipose.py) ----
    DEFAULT_CONFIG,   \* the module-level dict: section name -> reference to its dict
    heap,             \* dict objects: reference -> (key -> value)
    config,           \* the mapping load_config returned, or NoConfig
    cwd,              \* os.getcwd()
    existing,         \* the configuration files that exist (absolute paths)
    loaded,           \* the arguments of the last load_config call
    suppliedBefore,   \* whether an earlier call's file supplied a nested key
    nLoads,           \* load_config calls made so far
    \* ---- pose-inference stage (pose_videos.py) ----
    gpus,             \* config["pipeline"]["gpus"]
    videos,           \* basenames of the session's raw .avi videos
    files,            \* the pose-2d directory: file name -> what the file holds
    outdirExists,     \* whether the pose-2d directory exists
    status,           \* process_session: "idle", "running", "done" or "error"
    chunks,           \* videos_in_chunks
    wk,               \* the pool's tasks: one process_gpu_batch call each
    files0,           \* the pose-2d directory when process_session was called
    nAnalyses,        \* analyze_videos calls per video in this call
    run,              \* process_session calls made so far
    \* ---- progress check (anipose.py, __check_progress) ----
    filtered,         \* basenames of the .h5 files of pose-2d-filtered
    labeledFrames,    \* videos-labeled-filtered: basename -> frames of the .avi
    report,           \* what the check printed
    \* ---- command-line dispatcher (anipose.py) ----
    command,          \* the subcommand invoked
    filterEnabled,    \* config["filter"]["enabled"]
    cpc,              \* the next call of the command's body
    calls,            \* the stage functions called so far, in order
    active,           \* the stage function that is running, or "none"
    iter,             \* passes of a looping command completed
    cstatus           \* "running", "done" or "aborted"

cfgVars == <<DEFAULT_CONFIG, heap, config, cwd, existing, loaded, suppliedBefore, nLoads>>

poseVars == <<gpus, videos, files, outdirExists, status, chunks, wk, files0, nAnalyses, run>>

progVars == <<filtered, labeledFrames, report>>

cliVars == <<command, filterEnabled, cpc, calls, active, iter, cstatus>>

vars == <<cfgVars, poseVars, progVars, cliVars>>

-----------------------------------------------------------------------------
(* Values of the configuration tree, tagged with their Python type.        *)

VStr(x)   == [t |-> "str", v |-> x]
VInt(n)   == [t |-> "int", v |-> n]
VBool(b)  == [t |-> "bool", v |-> b]
VFloat(x) == [t |-> "float", v |-> x]
VList(s)  == [t |-> "list", v |-> s]
VPath(p)  == [t |-> "path", v |-> p]
Ref(o, s) == [t |-> "ref", owner |-> o, sec |-> s]

\* The literal of DEFAULT_CONFIG.
DefaultTree ==
    [calibration |-> [animal_calibration |-> VBool(FALSE)],
     pipeline |->
        [videos_raw |-> VStr("videos-raw"),
         pose_2d |-> VStr("pose-2d"),
         pose_2d_filter |-> VStr("pose-2d-filtered"),
         pose_3d |-> VStr("pose-3d"),
         videos_labeled_2d |-> VStr("videos-labeled"),
         videos_labeled_2d_filter |-> VStr("videos-labeled-filtered"),
         calibration_videos |-> VStr("calibration"),
         calibration_results |-> VStr("calibration"),
         videos_labeled_3d |-> VStr("videos-3d"),
         angles |-> VStr("angles"),
         summaries |-> VStr("summaries"),
         videos_combined |-> VStr("videos-combined"),
         gpus |-> VInt(0),
         npool |-> VInt(1)],
     filter |->
        [enabled |-> VBool(FALSE),
         medfilt |-> VInt(13),
         offset_threshold |-> VInt(25),
         score_threshold |-> VFloat("0.8"),
         spline |-> VBool(TRUE)],
     labeling |-> [dot_size |-> VInt(7)]]

Sections == DOMAIN DefaultTree

-----------------------------------------------------------------------------
(* Paths are sequences of components; an absolute path starts with "/".    *)

Root == <<"/">>
Home == <<"/", "home", "u">>

IsAbs(p) == Len(p) > 0 /\ p[1] = "/"

\* os.path.dirname: "" for a bare file name.
Dirname(p) ==
    IF p = Root THEN Root
    ELSE IF Len(p) <= 1 THEN <<>>
    ELSE SubSeq(p, 1, Len(p) - 1)

\* os.path.basename: "" for the root.
Basename(p) ==
    IF p = Root \/ Len(p) = 0 THEN "" ELSE p[Len(p)]

\* os.path.expanduser
ExpandUser(p) ==
    IF Len(p) > 0 /\ p[1] = "~" THEN Home \o Tail(p) ELSE p

\* os.path.normpath: drops ".", resolves "..", "." for the empty path.
RECURSIVE NormInto(_, _)
NormInto(acc, rest) ==
    IF rest = <<>> THEN acc
    ELSE LET c == Head(rest) IN
         IF c = "." THEN NormInto(acc, Tail(rest))
         ELSE IF c = ".." THEN
              IF acc = Root THEN NormInto(acc, Tail(rest))
              ELSE IF Len(acc) > 0 /\ acc[Len(acc)] # ".."
                   THEN NormInto(SubSeq(acc, 1, Len(acc) - 1), Tail(rest))
                   ELSE NormInto(Append(acc, c), Tail(rest))
         ELSE NormInto(Append(acc, c), Tail(rest))

NormPath(p) ==
    LET n == IF IsAbs(p) THEN NormInto(Root, Tail(p)) ELSE NormInto(<<>>, p)
    IN IF n = <<>> THEN <<".">> ELSE n

\* os.path.abspath
AbsPath(p, wd) == IF IsAbs(p) THEN NormPath(p) ELSE NormPath(wd \o p)

\* full_path
full_path(p, wd) == NormPath(AbsPath(ExpandUser(p), wd))

\* os.path.exists of a configuration file name
Exists(fname, wd, fs) == AbsPath(fname, wd) \in fs

-----------------------------------------------------------------------------
(* load_config                                                             *)

MaxLoads == 2        \* load_config calls in one run of the model
MaxSupplied == 1     \* nested keys a file supplies, unless it supplies a whole section

NoConfig == [t |-> "NoConfig"]
NoCall == [t |-> "NoCall"]

\* The value a configuration file gives a key: one no default has.
UserValue == VStr("user")

Cwds == {<<"/", "data", "exp">>, Root}
ConfigFile == <<"/", "data", "exp", "config.toml">>
OtherConfigFile == <<"/", "data", "exp", "conf", "config.toml">>

\* The fname argument: None, or a path.
None == [none |-> TRUE, p |-> <<>>]
Name(p) == [none |-> FALSE, p |-> p]
FnameArgs == {None, Name(<<"config.toml">>), Name(<<"conf", "config.toml">>),
              Name(<<"missing.toml">>)}

\* The mappings toml.load can return: any set of the default sections, each a
\* table of at most MaxSupplied of its default keys in all (or a whole
\* section), with or without the "path" and "project" keys.
RECURSIVE SubsetsUpTo(_, _)
SubsetsUpTo(S, n) ==
    IF n = 0 THEN {{}}
    ELSE LET smaller == SubsetsUpTo(S, n - 1)
         IN smaller \cup {A \cup {x} : A \in smaller, x \in S}

PairsOf(P) == UNION {{<<s, k>> : k \in DOMAIN DefaultTree[s]} : s \in P}

SectionChoices ==
    UNION {
        {[s \in P |-> [k \in {kk \in DOMAIN DefaultTree[s] : <<s, kk>> \in K} |-> UserValue]] :
            K \in SubsetsUpTo(PairsOf(P), MaxSupplied)
                  \cup {{<<s, k>> : k \in DOMAIN DefaultTree[s]} : s \in P}}
        : P \in SUBSET Sections}

ExtraChoices ==
    {<<>>, [k \in {"project"} |-> VStr("myproj")],
     [k \in {"path"} |-> VPath(<<"~", "proj", "..", "data">>)],
     [k \in {"path", "project"} |->
        IF k = "path" THEN VPath(<<"sub", ".", "run">>) ELSE VStr("myproj")]}

FileContents == {[secs |-> sc, extra |-> ex] : sc \in SectionChoices, ex \in ExtraChoices}

EmptyFile == [secs |-> <<>>, extra |-> <<>>]

\* The keys a file supplies, as <<section, key>> pairs.
Supplied(file) == {<<s, k>> \in PairsOf(DOMAIN file.secs) : k \in DOMAIN file.secs[s]}

\* toml.load: the top-level dict, its tables fresh dict objects.
TomlTop(file) ==
    [k \in DOMAIN file.secs \cup DOMAIN file.extra |->
        IF k \in DOMAIN file.secs THEN Ref("file", k) ELSE file.extra[k]]

TomlHeap(file, hp) ==
    [r \in DOMAIN hp \cup {Ref("file", s) : s \in DOMAIN file.secs} |->
        IF r.owner = "file" THEN file.secs[r.sec] ELSE hp[r]]

\* A path taken from the file name without asking whether the file exists.
ConfigPathUnchecked(c0, fn, ex, wd) ==
    LET raw == IF "path" \in DOMAIN c0 THEN c0["path"].v
               ELSE IF Dirname(fn) # <<>> THEN Dirname(fn)
               ELSE wd
    IN VPath(full_path(raw, wd))

\* config["path"], lines 59-65.
ConfigPath(c0, fn, ex, wd) ==
    LET raw == IF "path" \in DOMAIN c0 THEN c0["path"].v
               ELSE IF ex /\ Dirname(fn) # <<>> THEN Dirname(fn)
               ELSE wd
    IN VPath(full_path(raw, wd))

\* config["project"], lines 67-68.
ConfigProject(c0, path) ==
    IF "project" \in DOMAIN c0 THEN c0["project"] ELSE VStr(Basename(path.v))

\* A fill that takes the default's value whether or not the key is there.
FillNestedOverwriting(obj, dflt) ==
    [k2 \in DOMAIN obj \cup DOMAIN dflt |->
        IF k2 \in DOMAIN dflt THEN dflt[k2] ELSE obj[k2]]

\* The inner loop, lines 74-76: the default's keys the dict lacks are added.
FillNested(obj, dflt) ==
    [k2 \in DOMAIN obj \cup DOMAIN dflt |->
        IF k2 \in DOMAIN obj THEN obj[k2] ELSE dflt[k2]]

\* The outer loop, lines 70-72, on the top-level dict: a missing section is
\* bound to the default's own dict object.
MergeTop(c, dtop) ==
    [k \in DOMAIN c \cup DOMAIN dtop |-> IF k \in DOMAIN c THEN c[k] ELSE dtop[k]]

\* A merge that also writes the file's values into the default's dict.
MergeHeapIntoDefault(c, dtop, hp) ==
    [r \in DOMAIN hp |->
        IF \E k \in DOMAIN dtop \cap DOMAIN c : c[k] = r /\ dtop[k].t = "ref"
        THEN LET k == CHOOSE kk \in DOMAIN dtop \cap DOMAIN c : c[kk] = r
             IN FillNested(hp[r], hp[dtop[k]])
        ELSE IF \E k \in DOMAIN dtop \cap DOMAIN c : dtop[k] = r /\ c[k].t = "ref"
        THEN LET k == CHOOSE kk \in DOMAIN dtop \cap DOMAIN c : dtop[kk] = r
             IN FillNested(hp[c[k]], hp[r])
        ELSE hp[r]]

\* The outer loop, lines 73-76, on the heap: a present section's dict is filled.
MergeHeap(c, dtop, hp) ==
    [r \in DOMAIN hp |->
        IF \E k \in DOMAIN dtop \cap DOMAIN c : c[k] = r /\ dtop[k].t = "ref"
        THEN LET k == CHOOSE kk \in DOMAIN dtop \cap DOMAIN c : c[kk] = r
             IN FillNested(hp[r], hp[dtop[k]])
        ELSE hp[r]]

\* What DEFAULT_CONFIG is after the loop: load_config only reads it.
MergeDefault(c, dtop) == dtop

ConfigFileName(fname) == IF fname.none THEN <<"config.toml">> ELSE fname.p

\* A call is made when the caller holds no mapping yet.
CanLoad == nLoads < MaxLoads /\ config = NoConfig

LoadConfig(fname, file) ==
    /\ CanLoad
    /\ LET fn == ConfigFileName(fname)
           ex == Exists(fn, cwd, existing)
           c0 == IF ex THEN TomlTop(file) ELSE <<>>
           h0 == IF ex THEN TomlHeap(file, heap) ELSE heap
           path == ConfigPath(c0, fn, ex, cwd)
           c1 == [k \in DOMAIN c0 \cup {"path"} |-> IF k = "path" THEN path ELSE c0[k]]
           c2 == [k \in DOMAIN c1 \cup {"project"} |->
                    IF k = "project" THEN ConfigProject(c1, path) ELSE c1[k]]
       IN /\ (~ex => file = EmptyFile)
          /\ config' = MergeTop(c2, DEFAULT_CONFIG)
          /\ heap' = MergeHeap(c2, DEFAULT_CONFIG, h0)
          /\ DEFAULT_CONFIG' = MergeDefault(c2, DEFAULT_CONFIG)
          /\ loaded' = [fname |-> fname, file |-> file, existed |-> ex]
    /\ nLoads' = nLoads + 1
    /\ UNCHANGED <<cwd, existing, suppliedBefore, poseVars, progVars, cliVars>>

\* The caller is done with the mapping (cli(), line 90: one mapping per
\* invocation); the file's dict objects go with it.
Release ==
    /\ config # NoConfig
    /\ config' = NoConfig
    /\ heap' = [r \in {x \in DOMAIN heap : x.owner = "default"} |-> heap[r]]
    /\ suppliedBefore' = (suppliedBefore \/ Supplied(loaded.file) # {})
    /\ loaded' = NoCall
    /\ UNCHANGED <<DEFAULT_CONFIG, cwd, existing, nLoads, poseVars, progVars, cliVars>>

\* The state in which each part of the program starts.
ConfigStart ==
    /\ DEFAULT_CONFIG = [s \in Sections |-> Ref("default", s)]
    /\ heap = [r \in {Ref("default", s) : s \in Sections} |-> DefaultTree[r.sec]]
    /\ config = NoConfig
    /\ loaded = NoCall
    /\ suppliedBefore = FALSE
    /\ nLoads = 0

PoseStart ==
    /\ status = "idle"
    /\ chunks = <<>>
    /\ wk = <<>>
    /\ files0 = <<>>
    /\ nAnalyses = <<>>
    /\ run = 0

NoSession ==
    /\ gpus = DefaultTree.pipeline.gpus
    /\ videos = {}
    /\ files = <<>>
    /\ outdirExists = FALSE

NotRun == [printed |-> FALSE, ran |-> FALSE]

ProgressStart ==
    /\ report = NotRun

NoLabels ==
    /\ filtered = {}
    /\ labeledFrames = <<>>

CliStart ==
    /\ cpc = 1
    /\ calls = <<>>
    /\ active = "none"
    /\ iter = 0
    /\ cstatus = "running"

NoCommand ==
    /\ command = "none"
    /\ filterEnabled = DefaultTree.filter.enabled.v

InitConfig ==
    /\ ConfigStart
    /\ cwd \in Cwds
    /\ existing \in {{OtherConfigFile}, {ConfigFile, OtherConfigFile}}
    /\ PoseStart /\ NoSession
    /\ ProgressStart /\ NoLabels
    /\ CliStart /\ NoCommand

NextConfig ==
    \/ CanLoad /\ \E fname \in FnameArgs, file \in FileContents : LoadConfig(fname, file)
    \/ Release

SpecConfig == InitConfig /\ [][NextConfig]_vars

\* The dict a top-level value of the returned mapping refers to.
Section(s) == heap[config[s]]

Returned == config # NoConfig

\* C1: whatever mapping the file holds, the mapping load_config returns has
\* every top-level key and every nested key of DEFAULT_CONFIG, and every
\* nested key the file supplied still has the value the file gave it.
C1_BackfillKeepsSupplied ==
    Returned =>
        /\ \A s \in Sections :
              /\ s \in DOMAIN config
              /\ DOMAIN DefaultTree[s] \subseteq DOMAIN Section(s)
        /\ \A p \in Supplied(loaded.file) :
              Section(p[1])[p[2]] = loaded.file.secs[p[1]][p[2]]

\* A file with a section missing, a section present but empty and a section
\* with a supplied key has been loaded.
C1_Witness ==
    /\ Returned
    /\ loaded.existed
    /\ "calibration" \notin DOMAIN loaded.file.secs
    /\ "filter" \in DOMAIN loaded.file.secs /\ DOMAIN loaded.file.secs["filter"] = {}
    /\ Supplied(loaded.file) = {<<"pipeline", "gpus">>}
    /\ Section("pipeline")["gpus"] = UserValue
    /\ Section("pipeline")["npool"] = VInt(1)

\* C2: for a file name that does not exist (None included, when there is no
\* config.toml) the call returns exactly the default sections plus "path" and
\* "project": each section equal to the default tree, "path" the absolute
\* normalized working directory, "project" its basename.
C2_MissingFileGivesDefaults ==
    (Returned /\ ~loaded.existed) =>
          /\ DOMAIN config = Sections \cup {"path", "project"}
          /\ \A s \in Sections : Section(s) = DefaultTree[s]
          /\ config["path"] = VPath(cwd)
          /\ IsAbs(config["path"].v) /\ NormPath(config["path"].v) = config["path"].v
          /\ config["project"] = VStr(Basename(config["path"].v))

\* load_config(None) has returned where there is no config.toml.
C2_Witness ==
    /\ Returned
    /\ loaded.fname = None
    /\ ~loaded.existed
    /\ config["project"] = VStr("exp")

\* C10: DEFAULT_CONFIG is never changed by load_config, at either level, and
\* a returned mapping holds, for every key its own file did not supply, the
\* default's value (never one an earlier file supplied).
C10_DefaultConfigUnchanged ==
    /\ DEFAULT_CONFIG = [s \in Sections |-> Ref("default", s)]
    /\ \A s \in Sections : heap[Ref("default", s)] = DefaultTree[s]
    /\ Returned =>
          \A p \in PairsOf(Sections) \ Supplied(loaded.file) :
              Section(p[1])[p[2]] = DefaultTree[p[1]][p[2]]

\* A later call whose file supplies nothing has returned, after a call whose
\* file supplied a key; its sections are the default's own dict objects.
C10_Witness ==
    /\ Returned
    /\ nLoads >= 2
    /\ suppliedBefore
    /\ Supplied(loaded.file) = {}
    /\ \E s \in Sections : config[s] = DEFAULT_CONFIG[s]

-----------------------------------------------------------------------------
(* The pose-inference stage: process_session and process_gpu_batch.        *)

MaxVideos == 3       \* raw videos in the session
MaxGpus == 2         \* GPU indices the configuration lists
MaxRuns == 2         \* process_session calls on the session

\* Basenames of raw videos, as sequences of characters. "v1" is a prefix of
\* "v10" and of "v11".
VideoNames == {<<"v", "1">>, <<"v", "2">>, <<"v", "1", "0">>, <<"v", "1", "1">>}

Sessions == {S \in SUBSET VideoNames : Cardinality(S) <= MaxVideos}

DigitValue == [c \in {"0", "1", "2"} |-> IF c = "0" THEN 0 ELSE IF c = "1" THEN 1 ELSE 2]

\* natural_keys: the digits of a name compare as a number.
RECURSIVE NumberOf(_, _)
NumberOf(acc, cs) ==
    IF cs = <<>> THEN acc ELSE NumberOf(10 * acc + DigitValue[Head(cs)], Tail(cs))

natural_keys(base) == NumberOf(0, Tail(base))

\* sorted(videos, key=natural_keys), line 44.
RECURSIVE SortedVideos(_)
SortedVideos(S) ==
    IF S = {} THEN <<>>
    ELSE LET first == CHOOSE b \in S : \A c \in S : natural_keys(b) <= natural_keys(c)
         IN <<first>> \o SortedVideos(S \ {first})

\* The gpus settings: the default, or a list of up to MaxGpus indices.
GpuSettings ==
    {DefaultTree.pipeline.gpus} \cup {VList([i \in 1..n |-> i - 1]) : n \in 0..MaxGpus}

\* len(gpus) in the try block, lines 32-36: a value without a length gives 1.
HasLen(g) == g.t = "list"
n_gpus(g) == IF HasLen(g) THEN Len(g.v) ELSE 1

\* gpus after the try block: None where len() raised.
NoneValue == [t |-> "None"]
GpusAfterTry(g) == IF HasLen(g) THEN g ELSE NoneValue

\* A split into n sections of len // n elements each: the remainder is lost.
ArraySplitTruncating(ary, n) ==
    LET each == Len(ary) \div n
    IN [i \in 1..n |-> SubSeq(ary, (i - 1) * each + 1, i * each)]

\* np.array_split(ary, n), line 49: the first len % n sections hold
\* len // n + 1 elements, the rest len // n.
ArraySplit(ary, n) ==
    LET each == Len(ary) \div n
        extras == Len(ary) % n
        start(i) == IF i <= extras THEN (i - 1) * (each + 1)
                    ELSE extras * (each + 1) + (i - 1 - extras) * each
        size(i) == IF i <= extras THEN each + 1 ELSE each
    IN [i \in 1..n |-> SubSeq(ary, start(i) + 1, start(i) + size(i))]

\* The arguments starmap gets, lines 52-55: zip() needs every argument
\* iterable, and stops with the shortest.
ZipIterable(g) == g.t = "list"
ZipTasks(cs, g) ==
    LET n == IF Len(cs) < Len(g.v) THEN Len(cs) ELSE Len(g.v)
    IN [i \in 1..n |-> [videos |-> cs[i], gpu |-> g.v[i]]]

\* File names of the pose-2d directory: a stem and an extension.
PoseFile(stem, ext) == [stem |-> stem, ext |-> ext]
H5(base) == PoseFile(base, ".h5")

\* What analyze_videos writes for a video (save_as_csv=True): the name is the
\* video's basename, the network's suffix and an extension.
EstimatorExts == {".h5", ".csv"}
EstimatorFiles(base) ==
    [n \in {PoseFile(Append(base, "DLC"), e) : e \in EstimatorExts} |->
        [video |-> base, ext |-> n.ext]]

\* The files a finished video has: the estimator's, renamed.
RenamedFiles(base) ==
    [n \in {PoseFile(base, e) : e \in EstimatorExts} |-> [video |-> base, ext |-> n.ext]]

\* Two directories' files together (the names are distinct).
Together(f, g) ==
    [n \in DOMAIN f \cup DOMAIN g |-> IF n \in DOMAIN f THEN f[n] ELSE g[n]]

RECURSIVE OutputsOf(_)
OutputsOf(S) ==
    IF S = {} THEN <<>>
    ELSE LET b == CHOOSE x \in S : TRUE
         IN Together(RenamedFiles(b), OutputsOf(S \ {b}))

IsPrefix(a, b) == Len(a) <= Len(b) /\ SubSeq(b, 1, Len(a)) = a

\* glob(os.path.join(folder, base + "*")), line 20.
Glob(fs, base) == {n \in DOMAIN fs : IsPrefix(base, n.stem)}

\* os.rename(src, dst), line 24: dst is replaced if it exists.
Rename(fs, src, dst) ==
    IF src = dst THEN fs
    ELSE [n \in (DOMAIN fs \ {src}) \cup {dst} |-> IF n = dst THEN fs[src] ELSE fs[n]]

Idle(todo) == [pc |-> "next", todo |-> todo, cur |-> <<>>, pending |-> {}]

\* process_session, lines 27-55, up to the pool's start. The configuration
\* holds "model_folder" (line 38), as a project's config.toml does.
StartSession ==
    /\ status = "idle" \/ (status \in {"done", "error"} /\ run < MaxRuns)
    /\ run' = run + 1
    /\ files0' = files
    /\ nAnalyses' = [b \in videos |-> 0]
    /\ outdirExists' = (outdirExists \/ videos # {})
    /\ LET n == n_gpus(gpus)
           g == GpusAfterTry(gpus)
       IN IF n = 0
          THEN \* array_split: ValueError
               /\ chunks' = <<>>
               /\ wk' = <<>>
               /\ status' = "error"
          ELSE /\ chunks' = ArraySplit(SortedVideos(videos), n)
               /\ IF ZipIterable(g)
                  THEN /\ wk' = [i \in DOMAIN ZipTasks(chunks', g) |->
                                    Idle(ZipTasks(chunks', g)[i].videos)]
                       /\ status' = "running"
                  ELSE \* zip: TypeError
                       /\ wk' = <<>>
                       /\ status' = "error"
    /\ UNCHANGED <<gpus, videos, files, cfgVars, progVars, cliVars>>

\* process_gpu_batch, line 60: the batch is exhausted.
BatchDone(w) ==
    /\ status = "running"
    /\ wk[w].pc = "next"
    /\ wk[w].todo = <<>>
    /\ wk' = [wk EXCEPT ![w].pc = "finished"]
    /\ UNCHANGED <<gpus, videos, files, outdirExists, status, chunks, files0, nAnalyses, run, cfgVars, progVars, cliVars>>

\* Lines 61-67: the video's .h5 exists, the loop continues.
SkipVideo(w) ==
    /\ status = "running"
    /\ wk[w].pc = "next"
    /\ wk[w].todo # <<>>
    /\ H5(Head(wk[w].todo)) \in DOMAIN files
    /\ wk' = [wk EXCEPT ![w].todo = Tail(@)]
    /\ UNCHANGED <<gpus, videos, files, outdirExists, status, chunks, files0, nAnalyses, run, cfgVars, progVars, cliVars>>

\* Lines 61-78: the video's .h5 does not exist, the estimator runs.
AnalyzeVideo(w) ==
    /\ status = "running"
    /\ wk[w].pc = "next"
    /\ wk[w].todo # <<>>
    /\ LET base == Head(wk[w].todo)
       IN /\ H5(base) \notin DOMAIN files
          /\ files' = Together(EstimatorFiles(base), files)
          /\ nAnalyses' = [nAnalyses EXCEPT ![base] = @ + 1]
          /\ wk' = [wk EXCEPT ![w].pc = "glob", ![w].cur = base]
    /\ UNCHANGED <<gpus, videos, outdirExists, status, chunks, files0, run, cfgVars, progVars, cliVars>>

\* rename_dlc_files, line 20; with nothing to rename the loop goes on.
GlobFiles(w) ==
    /\ status = "running"
    /\ wk[w].pc = "glob"
    /\ LET found == Glob(files, wk[w].cur)
       IN wk' = IF found = {}
                THEN [wk EXCEPT ![w] = Idle(Tail(wk[w].todo))]
                ELSE [wk EXCEPT ![w].pc = "rename", ![w].pending = found]
    /\ UNCHANGED <<gpus, videos, files, outdirExists, status, chunks, files0, nAnalyses, run, cfgVars, progVars, cliVars>>

\* rename_dlc_files, lines 21-24: one file of the listing, in any order. A
\* file that is gone by now makes os.rename raise FileNotFoundError.
RenameFile(w, n) ==
    /\ status = "running"
    /\ wk[w].pc = "rename"
    /\ n \in wk[w].pending
    /\ IF n \notin DOMAIN files
       THEN /\ wk' = [wk EXCEPT ![w].pc = "failed", ![w].pending = {}]
            /\ files' = files
       ELSE /\ files' = Rename(files, n, PoseFile(wk[w].cur, n.ext))
            /\ wk' = IF wk[w].pending = {n}
                     THEN [wk EXCEPT ![w] = Idle(Tail(wk[w].todo))]
                     ELSE [wk EXCEPT ![w].pending = @ \ {n}]
    /\ UNCHANGED <<gpus, videos, outdirExists, status, chunks, files0, nAnalyses, run, cfgVars, progVars, cliVars>>

\* starmap returns when every task has ended, and raises if one raised.
FinishSession ==
    /\ status = "running"
    /\ \A w \in DOMAIN wk : wk[w].pc \in {"finished", "failed"}
    /\ status' = IF \E w \in DOMAIN wk : wk[w].pc = "failed" THEN "error" ELSE "done"
    /\ UNCHANGED <<gpus, videos, files, outdirExists, chunks, wk, files0, nAnalyses, run, cfgVars, progVars, cliVars>>

\* A session: its raw videos, and in pose-2d the outputs of the videos an
\* earlier run finished.
InitPose ==
    /\ ConfigStart
    /\ cwd = Root
    /\ existing = {}
    /\ PoseStart
    /\ gpus \in GpuSettings
    /\ videos \in Sessions
    /\ \E finished \in SUBSET videos :
          /\ files = OutputsOf(finished)
          /\ outdirExists \in {finished # {}, TRUE}
    /\ ProgressStart /\ NoLabels
    /\ CliStart /\ NoCommand

NextPose ==
    \/ StartSession
    \/ \E w \in DOMAIN wk : BatchDone(w)
    \/ \E w \in DOMAIN wk : SkipVideo(w)
    \/ \E w \in DOMAIN wk : AnalyzeVideo(w)
    \/ \E w \in DOMAIN wk : GlobFiles(w)
    \/ \E w \in DOMAIN wk : \E n \in wk[w].pending : RenameFile(w, n)
    \/ FinishSession

SpecPose == InitPose /\ [][NextPose]_vars

\* process_session up to the pool's start alone, on every session and setting.
NextSplit == StartSession

SpecSplit == InitPose /\ [][NextSplit]_vars

RECURSIVE Concat(_)
Concat(ss) == IF ss = <<>> THEN <<>> ELSE Head(ss) \o Concat(Tail(ss))

Ended == status \in {"done", "error"}

\* C3: for a worker count G >= 1, process_session splits the sorted video
\* list into exactly G chunks whose sizes differ by at most 1 and whose
\* concatenation, in order, is the list: every video is in exactly one chunk.
C3_SplitIsEvenPartition ==
    (status # "idle" /\ n_gpus(gpus) >= 1) =>
        /\ Len(chunks) = n_gpus(gpus)
        /\ \A i, j \in DOMAIN chunks : Len(chunks[i]) - Len(chunks[j]) <= 1
        /\ Concat(chunks) = SortedVideos(videos)
        /\ \A b \in videos :
              Cardinality(UNION {{<<i, k>> : k \in {x \in DOMAIN chunks[i] : chunks[i][x] = b}} :
                                    i \in DOMAIN chunks}) = 1

\* Three videos have been split over two workers, two and one.
C3_Witness ==
    /\ status = "running"
    /\ videos = {<<"v", "1">>, <<"v", "2">>, <<"v", "1", "0">>}
    /\ Len(chunks) = 2
    /\ chunks[1] = <<<<"v", "1">>, <<"v", "2">>>>
    /\ chunks[2] = <<<<"v", "1", "0">>>>
    /\ Len(chunks) = 2
    /\ Len(chunks[1]) = 2 /\ Len(chunks[2]) = 1

\* C4: with a gpus setting that is no list (the default 0) process_session
\* runs one worker, which is handed the whole video list, and ends without
\* error.
C4_ScalarGpusRunsOneWorker ==
    (gpus.t # "list" /\ status # "idle") =>
        /\ status # "error"
        /\ DOMAIN wk = {1}
        /\ chunks = <<SortedVideos(videos)>>

\* C5: process_session on a session whose raw videos all have their .h5 ends
\* successfully, without a call of the estimator and with the pose-2d
\* directory as it was.
C5_RerunDoesNothing ==
    (Ended /\ videos # {} /\ \A b \in videos : H5(b) \in DOMAIN files0) =>
        /\ status = "done"
        /\ \A b \in videos : nAnalyses[b] = 0
        /\ files = files0

\* C7: with a list of G >= 1 GPU indices, however the workers interleave,
\* process_session ends with every raw video's own <basename>.h5 in pose-2d,
\* no task having failed, and every video in one chunk and analyzed at most
\* once. (Stated for a pose-2d directory that was empty at the call.)
C7_EveryVideoGetsItsOutput ==
    (Ended /\ gpus.t = "list" /\ Len(gpus.v) >= 1 /\ files0 = <<>>) =>
        /\ status = "done"
        /\ \A b \in videos :
              /\ H5(b) \in DOMAIN files
              /\ files[H5(b)].video = b
              /\ nAnalyses[b] <= 1
              /\ \E i \in DOMAIN chunks : \E k \in DOMAIN chunks[i] : chunks[i][k] = b

\* The video a task is working on.
VideoOf(w) ==
    IF wk[w].pc = "next" /\ wk[w].todo # <<>> THEN Head(wk[w].todo) ELSE wk[w].cur

\* C9: a step of a task that is processing one video leaves every file of
\* pose-2d that holds another video's data under its name, with its content.
C9_OtherVideosFilesKept ==
    [][\A w \in DOMAIN wk :
          (status = "running" /\ status' = "running" /\ wk'[w] # wk[w]) =>
              \A n \in DOMAIN files :
                  files[n].video # VideoOf(w) =>
                      (n \in DOMAIN files' /\ files'[n] = files[n])]_vars

-----------------------------------------------------------------------------
(* __check_progress. The configuration holds "model_folder", the key every *)
(* project's config.toml sets and lines 38 and 357 read.                   *)

FrameTolerance == 100
RawFrames == 1000    \* frames of each raw video

\* Frame counts of a labeled video: the raw video's, or fewer.
FrameChoices == {RawFrames, RawFrames - FrameTolerance + 1, RawFrames - FrameTolerance}

\* A count of the .h5 files of pose-2d, whatever they are named.
CountPoseFiles(vs, fs) == Cardinality({n \in DOMAIN fs : n.ext = ".h5"})

\* Lines 365-375: the videos of the sorted list whose <basename>.h5 exists.
RECURSIVE CountAnalyzed(_, _)
CountAnalyzed(vs, fs) ==
    IF vs = <<>> THEN 0
    ELSE (IF H5(Head(vs)) \in DOMAIN fs THEN 1 ELSE 0) + CountAnalyzed(Tail(vs), fs)

Abs(x) == IF x < 0 THEN -x ELSE x

\* Lines 377-393: the filtered pose files whose raw video exists and whose
\* labeled video exists with about as many frames.
CountLabeled(fl, vs, lab) ==
    Cardinality({b \in fl :
        /\ b \in vs
        /\ b \in DOMAIN lab
        /\ Abs(lab[b] - RawFrames) < FrameTolerance})

\* Lines 395-398: nothing is printed for a session without videos.
CheckProgress ==
    /\ report = NotRun
    /\ LET sorted == SortedVideos(videos)
           n_analyzed == CountAnalyzed(sorted, files)
           n_labeled == CountLabeled(filtered, videos, labeledFrames)
       IN report' = IF Len(sorted) > 0
                    THEN [printed |-> TRUE, ran |-> TRUE, analyzed |-> n_analyzed,
                          labeled |-> n_labeled, total |-> Len(sorted)]
                    ELSE [printed |-> FALSE, ran |-> TRUE]
    /\ UNCHANGED <<filtered, labeledFrames, cfgVars, poseVars, cliVars>>

\* A session some of whose videos are finished; pose-2d may also hold the
\* outputs of a video that is gone, or files the estimator has just written.
InitProgress ==
    /\ ConfigStart
    /\ cwd = Root
    /\ existing = {}
    /\ PoseStart
    /\ gpus = DefaultTree.pipeline.gpus
    /\ videos \in Sessions
    /\ \E finished \in SUBSET videos :
          /\ \E other \in {<<>>} \cup {OutputsOf({b}) : b \in VideoNames \ videos}
                             \cup {EstimatorFiles(b) : b \in videos \ finished} :
                files = Together(OutputsOf(finished), other)
          /\ filtered \in SUBSET finished
    /\ outdirExists = (files # <<>>)
    /\ \E L \in SUBSET filtered : labeledFrames \in [L -> FrameChoices]
    /\ ProgressStart
    /\ CliStart /\ NoCommand

NextProgress == CheckProgress

SpecProgress == InitProgress /\ [][NextProgress]_vars

\* The pose files of the session's videos, and its videos.
PoseFilesOfSession == {n \in DOMAIN files : n.ext = ".h5" /\ n.stem \in videos}

-----------------------------------------------------------------------------
(* The subcommands: each calls stage functions in a fixed order.           *)

MaxIterations == 2   \* passes of a looping command

\* A run-all that triangulates before it filters.
run_all_filter_late(enabled) ==
    <<"calibrate_intrinsics_all", "calibrate_extrinsics_all", "pose_videos_all",
      "triangulate_all">>
    \o (IF enabled THEN <<"filter_pose_all">> ELSE <<>>)
    \o <<"compute_angles_all">>
    \o (IF enabled THEN <<"label_videos_filtered_all">> ELSE <<"label_videos_all">>)
    \o <<"label_videos_3d_all">>

\* run_all, lines 302-339.
run_all(enabled) ==
    <<"calibrate_intrinsics_all", "calibrate_extrinsics_all", "pose_videos_all">>
    \o (IF enabled THEN <<"filter_pose_all">> ELSE <<>>)
    \o <<"triangulate_all", "compute_angles_all">>
    \o (IF enabled THEN <<"label_videos_filtered_all">> ELSE <<"label_videos_all">>)
    \o <<"label_videos_3d_all">>

\* The other commands, lines 93-299 and 342-348.
Body(cmd, enabled) ==
    CASE cmd = "calibrate" -> <<"calibrate_intrinsics_all", "calibrate_extrinsics_all">>
      [] cmd = "calibrate_intrinsics" -> <<"calibrate_intrinsics_all">>
      [] cmd = "calibrate_extrinsics" -> <<"calibrate_extrinsics_all">>
      [] cmd = "calibration_errors" -> <<"get_errors_all">>
      [] cmd = "analyze" -> <<"pose_videos_all">>
      [] cmd = "filter" -> <<"filter_pose_all">>
      [] cmd = "triangulate" -> <<"triangulate_all">>
      [] cmd = "angles" -> <<"compute_angles_all">>
      [] cmd = "summarize_3d" -> <<"summarize_angles", "summarize_pose3d">>
      [] cmd = "summarize_2d" ->
            <<"summarize_pose2d">>
            \o (IF enabled THEN <<"summarize_pose2d_filtered">> ELSE <<>>)
      [] cmd = "summarize_errors" -> <<"summarize_errors">>
      [] cmd = "label_2d" -> <<"label_videos_all">>
      [] cmd = "label_2d_filter" ->
            <<"summarize_pose2d">>
            \o (IF enabled THEN <<"filter_pose_all", "summarize_pose2d_filtered">> ELSE <<>>)
            \o <<"summarize_errors", "label_videos_filtered_all">>
      [] cmd = "label_3d" -> <<"label_videos_3d_all">>
      [] cmd = "label_combined" -> <<"label_combined_all">>
      [] cmd = "draw_calibration" -> <<"get_calibration_board_image", "imwrite">>
      [] cmd = "run_data" ->
            <<"calibrate_intrinsics_all", "calibrate_extrinsics_all", "pose_videos_all",
              "triangulate_all">>
      [] cmd = "run_viz" ->
            (IF enabled THEN <<"label_videos_filtered_all">> ELSE <<"label_videos_all">>)
            \o <<"label_videos_3d_all">>
      [] cmd = "run_all" -> run_all(enabled)
      [] cmd = "check_progress" -> <<"_check_progress">>

Commands ==
    {"calibrate", "calibrate_intrinsics", "calibrate_extrinsics", "calibration_errors",
     "analyze", "filter", "triangulate", "angles", "summarize_3d", "summarize_2d",
     "summarize_errors", "label_2d", "label_2d_filter", "label_3d", "label_combined",
     "draw_calibration", "run_data", "run_viz", "run_all", "check_progress"}

\* The commands whose body is a "while True:" with a sleep, lines 139-141
\* and 223-234.
Loops(cmd) == cmd \in {"analyze", "label_2d_filter"}

Program == Body(command, filterEnabled)

\* A stage function is called.
CallStage ==
    /\ cstatus = "running"
    /\ active = "none"
    /\ cpc <= Len(Program)
    /\ active' = Program[cpc]
    /\ calls' = Append(calls, Program[cpc])
    /\ UNCHANGED <<command, filterEnabled, cpc, iter, cstatus, cfgVars, poseVars, progVars>>

\* It returns.
ReturnStage ==
    /\ cstatus = "running"
    /\ active # "none"
    /\ active' = "none"
    /\ cpc' = cpc + 1
    /\ UNCHANGED <<command, filterEnabled, calls, iter, cstatus, cfgVars, poseVars, progVars>>

\* It raises: nothing catches it, the command ends.
StageRaises ==
    /\ cstatus = "running"
    /\ active # "none"
    /\ active' = "none"
    /\ cstatus' = "aborted"
    /\ UNCHANGED <<command, filterEnabled, cpc, calls, iter, cfgVars, poseVars, progVars>>

\* time.sleep(pause_time) at the end of a looping command's pass.
Sleep ==
    /\ cstatus = "running"
    /\ active = "none"
    /\ cpc > Len(Program)
    /\ Loops(command)
    /\ iter < MaxIterations
    /\ iter' = iter + 1
    /\ cpc' = 1
    /\ UNCHANGED <<command, filterEnabled, calls, active, cstatus, cfgVars, poseVars, progVars>>

\* The end of a command's body.
Finish ==
    /\ cstatus = "running"
    /\ active = "none"
    /\ cpc > Len(Program)
    /\ ~Loops(command)
    /\ cstatus' = "done"
    /\ UNCHANGED <<command, filterEnabled, cpc, calls, active, iter, cfgVars, poseVars, progVars>>

InitCli ==
    /\ ConfigStart
    /\ cwd = Root
    /\ existing = {}
    /\ PoseStart /\ NoSession
    /\ ProgressStart /\ NoLabels
    /\ CliStart
    /\ command \in Commands
    /\ filterEnabled \in BOOLEAN

NextCli == CallStage \/ ReturnStage \/ StageRaises \/ Sleep \/ Finish

SpecCli == InitCli /\ [][NextCli]_vars

\* The place of a stage in the order the claim gives.
Rank(stage) ==
    CASE stage = "calibrate_intrinsics_all" -> 1
      [] stage = "calibrate_extrinsics_all" -> 2
      [] stage = "pose_videos_all" -> 3
      [] stage = "filter_pose_all" -> 4
      [] stage = "triangulate_all" -> 5
      [] stage = "compute_angles_all" -> 6
      [] stage \in {"label_videos_all", "label_videos_filtered_all"} -> 7
      [] stage = "label_videos_3d_all" -> 8
      [] OTHER -> 0

Called(stage) == \E i \in DOMAIN calls : calls[i] = stage

\* C8: run-all calls intrinsic calibration, extrinsic calibration, pose
\* inference, filtering, triangulation, angles, 2D labeling, 3D labeling in
\* this order, each once; filtering exactly when filter.enabled, between pose
\* inference and triangulation; the filtered 2D labeler exactly when
\* filter.enabled; and a stage is called only when none is running.
C8_RunAllOrder ==
    /\ [](command = "run_all" =>
            /\ calls # <<>> => Rank(calls[1]) = 1
            /\ \A i \in DOMAIN calls : i < Len(calls) =>
                  \/ Rank(calls[i + 1]) = Rank(calls[i]) + 1
                  \/ ~filterEnabled /\ Rank(calls[i]) = 3 /\ Rank(calls[i + 1]) = 5
            /\ Called("filter_pose_all") => filterEnabled
            /\ (filterEnabled /\ Called("triangulate_all")) => Called("filter_pose_all")
            /\ Called("label_videos_filtered_all") => filterEnabled
            /\ Called("label_videos_all") => ~filterEnabled
            /\ cstatus = "done" => Called("label_videos_3d_all")
            /\ active # "none" => active = calls[Len(calls)])
    /\ [][command = "run_all" => (calls' # calls => active = "none")]_vars

\* run-all has ended having filtered.
C8_Witness ==
    /\ command = "run_all"
    /\ cstatus = "done"
    /\ filterEnabled
    /\ Len(calls) = 8
    /\ calls[4] = "filter_pose_all"

=============================================================================
